---- MODULE Spec2Model ----
(***************************************************************************)
(* Model of the filezap compression engine.                                *)
(*                                                                         *)
(*  - the Go/WASM engine (compressPDF, compressImage and the byte-level    *)
(*    PDF pipeline behind compressPDF), specification Spec;                *)
(*  - the JavaScript compression worker (compressionWorker.ts),            *)
(*    specification SpecWorker.                                            *)
(*                                                                         *)
(* Buffers are sequences of bytes (0..255).  Go indexes from 0, TLA+ from  *)
(* 1: all offsets below are the Go offsets and B(d, i) reads d[i].         *)
(***************************************************************************)
EXTENDS Integers, Sequences, FiniteSets, TLC

(***************************************************************************)
(* Go slices and strings                                                   *)
(***************************************************************************)

\* d[i] of Go (0-based)
B(d, i) == d[i + 1]

\* d[a:b] of Go for 0 <= a <= b <= len(d)
Slice(d, a, b) == SubSeq(d, a + 1, b)

\* n copies of the byte b
Fill(n, b) == [k \in 1..n |-> b]

Min(S) == CHOOSE m \in S : \A k \in S : m <= k

\* strings.HasPrefix(s[i:], p)
HasPrefixAt(s, i, p) ==
  /\ i + Len(p) <= Len(s)
  /\ \A q \in 0..(Len(p) - 1) : B(s, i + q) = B(p, q)

\* i + strings.Index(s[i:], p), or -1
IndexFrom(s, i, p) ==
  LET hits == {k \in i..(Len(s) - Len(p)) : HasPrefixAt(s, k, p)}
  IN  IF hits = {} THEN -1 ELSE Min(hits)

\* strings.Index(s, p)
Index(s, p) == IndexFrom(s, 0, p)

\* strings.Contains(s, p)
Contains(s, p) == Index(s, p) # -1

\* strings.ReplaceAll(s[i:], old, new): the non-overlapping matches, left to right
RECURSIVE ReplaceAllFrom(_, _, _, _)
ReplaceAllFrom(s, i, old, new) ==
  LET k == IndexFrom(s, i, old)
  IN  IF k = -1
      THEN Slice(s, i, Len(s))
      ELSE Slice(s, i, k) \o new \o ReplaceAllFrom(s, k + Len(old), old, new)

ReplaceAll(s, old, new) == ReplaceAllFrom(s, 0, old, new)

(***************************************************************************)
(* Byte strings of the source                                              *)
(***************************************************************************)
PdfMagic == <<37, 80, 68, 70>>                       \* "%PDF"
Slash == 47                                          \* '/'
DictEnd == <<62, 62>>                                \* ">>"
CR == <<13>>
LF == <<10>>
SP == <<32>>
TAB == <<9>>
KeyCreator == <<47, 67, 114, 101, 97, 116, 111, 114>>                   \* "/Creator"
KeyProducer == <<47, 80, 114, 111, 100, 117, 99, 101, 114>>             \* "/Producer"
KeyCreationDate == <<47, 67, 114, 101, 97, 116, 105, 111, 110, 68, 97, 116, 101>>
KeyModDate == <<47, 77, 111, 100, 68, 97, 116, 101>>                    \* "/ModDate"
KeyTitle == <<47, 84, 105, 116, 108, 101>>                              \* "/Title"
KeyAuthor == <<47, 65, 117, 116, 104, 111, 114>>                        \* "/Author"
KeySubject == <<47, 83, 117, 98, 106, 101, 99, 116>>                    \* "/Subject"
KeyKeywords == <<47, 75, 101, 121, 119, 111, 114, 100, 115>>           \* "/Keywords"

\* patterns of removeMetadataBinary, in its order
patterns ==
  << KeyCreator, KeyProducer, KeyCreationDate, KeyModDate,
     KeyTitle, KeyAuthor, KeySubject, KeyKeywords >>

(***************************************************************************)
(* A stage either returns bytes or panics (a slice out of range).          *)
(***************************************************************************)
Ok(b) == [panic |-> FALSE, bytes |-> b]
Fault == [panic |-> TRUE, bytes |-> <<>>]

\* d[a:b] of Go with its run-time bounds check
GoSlice(d, a, b) ==
  IF 0 <= a /\ a <= b /\ b <= Len(d) THEN Ok(Slice(d, a, b)) ELSE Fault

(***************************************************************************)
(* compressJpegData: drop large EXIF / comment / APPn segments             *)
(***************************************************************************)
ExifLimit == 10240
CommentLimit == 1024
AppLimit == 20480

\* int(jpegData[i+2])<<8 + int(jpegData[i+3])
segmentLength(d, i) == B(d, i + 2) * 256 + B(d, i + 3)

\* the loop body takes one of its three `continue` branches at offset i
JpegSkipAt(d, i) ==
  /\ i < Len(d) - 3
  /\ B(d, i) = 255
  /\ \/ B(d, i + 1) = 225 /\ segmentLength(d, i) > ExifLimit
     \/ B(d, i + 1) = 254 /\ segmentLength(d, i) > CommentLimit
     \/ B(d, i + 1) >= 226 /\ B(d, i + 1) <= 239 /\ segmentLength(d, i) > AppLimit

\* the loop of compressJpegData from offset i: result bytes and bytesRemoved
RECURSIVE JpegLoop(_, _)
JpegLoop(d, i) ==
  LET ks == {k \in i..(Len(d) - 4) : JpegSkipAt(d, k)}
  IN  IF ks = {}
      THEN [bytes |-> Slice(d, i, Len(d)), bytesRemoved |-> 0]
      ELSE LET k == Min(ks)
               rest == JpegLoop(d, k + 2 + segmentLength(d, k))
           IN  [bytes |-> Slice(d, i, k) \o rest.bytes,
                bytesRemoved |-> 2 + segmentLength(d, k) + rest.bytesRemoved]

compressJpegData(jpegData) ==
  LET r == JpegLoop(jpegData, 0)
  IN  IF r.bytesRemoved > Len(jpegData) \div 20 THEN r.bytes ELSE jpegData

(***************************************************************************)
(* compressPngData: drop metadata chunks                                   *)
(***************************************************************************)
PngTextLimit == 1024
PngPhysLimit == 512
ChunkText == {<<116, 69, 88, 116>>, <<122, 84, 88, 116>>, <<105, 84, 88, 116>>}
ChunkTime == <<116, 73, 77, 69>>                     \* "tIME"
ChunkPhys == <<112, 72, 89, 115>>                    \* "pHYs"
ChunkEnd == <<73, 69, 78, 68>>                       \* "IEND"
PngSignature == <<137, 80, 78, 71>>                  \* 89 50 4E 47

chunkLength(d, i) ==
  B(d, i) * 16777216 + B(d, i + 1) * 65536 + B(d, i + 2) * 256 + B(d, i + 3)

keepChunk(d, i) ==
  LET chunkType == Slice(d, i + 4, i + 8)
  IN  /\ ~(chunkType \in ChunkText /\ chunkLength(d, i) > PngTextLimit)
      /\ chunkType # ChunkTime
      /\ ~(chunkType = ChunkPhys /\ chunkLength(d, i) > PngPhysLimit)

\* the chunk loop of compressPngData from offset i
RECURSIVE PngLoop(_, _)
PngLoop(d, i) ==
  IF i >= Len(d) THEN <<>>
  ELSE IF i + 8 > Len(d) THEN Slice(d, i, Len(d))
  ELSE LET chunkEnd == i + 12 + chunkLength(d, i)
       IN  (IF keepChunk(d, i) /\ chunkEnd <= Len(d)
            THEN Slice(d, i, chunkEnd) ELSE <<>>)
           \o PngLoop(d, i + 12 + chunkLength(d, i))

compressPngData(pngData) ==
  LET sig == GoSlice(pngData, 0, 8)
  IN  IF sig.panic THEN Fault ELSE Ok(sig.bytes \o PngLoop(pngData, 8))

(***************************************************************************)
(* compressEmbeddedImages: scan for JPEG / PNG spans and splice            *)
(***************************************************************************)
MinImageSpan == 1000

\* last offset + 1 of the inner search loops (j < len(data)-1, j < len(data)-7)
JpegScanLimitShort(d) == Len(d) - 2
JpegScanLimit(d) == Len(d) - 1
PngScanLimitBad(d) == Len(d) - 3
PngScanLimit(d) == Len(d) - 7

jpegEnd(d, i) ==
  LET js == {j \in (i + 2)..(JpegScanLimit(d) - 1) : B(d, j) = 255 /\ B(d, j + 1) = 217}
  IN  IF js = {} THEN -1 ELSE Min(js) + 2

pngEnd(d, i) ==
  LET js == {j \in (i + 8)..(PngScanLimit(d) - 1) : HasPrefixAt(d, j, ChunkEnd)}
  IN  IF js = {} THEN -1 ELSE Min(js) + 8

\* the span the loop body processes at offset i, if any
SpanAt(d, i) ==
  IF /\ i < Len(d) - 2 /\ B(d, i) = 255 /\ B(d, i + 1) = 216
     /\ jpegEnd(d, i) > 0 /\ jpegEnd(d, i) - i > MinImageSpan
  THEN [kind |-> "jpeg", end |-> jpegEnd(d, i)]
  ELSE IF /\ i < Len(d) - 7 /\ HasPrefixAt(d, i, PngSignature)
          /\ pngEnd(d, i) > 0 /\ pngEnd(d, i) - i > MinImageSpan
  THEN [kind |-> "png", end |-> pngEnd(d, i)]
  ELSE [kind |-> "none", end |-> -1]

\* the main loop of compressEmbeddedImages from offset i
RECURSIVE ImagesLoop(_, _)
ImagesLoop(d, i) ==
  LET ks == {k \in i..(Len(d) - 1) : SpanAt(d, k).kind # "none"}
  IN  IF ks = {}
      THEN Ok(Slice(d, i, Len(d)))
      ELSE LET k == Min(ks)
               sp == SpanAt(d, k)
               raw == GoSlice(d, k, sp.end)
               cand == IF raw.panic THEN Fault
                       ELSE IF sp.kind = "jpeg" THEN Ok(compressJpegData(raw.bytes))
                       ELSE compressPngData(raw.bytes)
               chosen == IF Len(cand.bytes) < sp.end - k THEN cand.bytes ELSE raw.bytes
               rest == IF cand.panic THEN Fault ELSE ImagesLoop(d, sp.end)
           IN  IF rest.panic THEN Fault
               ELSE Ok(Slice(d, i, k) \o chosen \o rest.bytes)

compressEmbeddedImagesFromOne(data) == ImagesLoop(data, 1)
compressEmbeddedImages(data) == ImagesLoop(data, 0)

\* what the loop appends for the span starting at offset k: the candidate of
\* compressJpegData / compressPngData if it is shorter than the span, else the span
ChosenAt(d, k) ==
  LET sp == SpanAt(d, k)
      raw == GoSlice(d, k, sp.end)
      cand == IF raw.panic THEN Fault
              ELSE IF sp.kind = "jpeg" THEN Ok(compressJpegData(raw.bytes))
              ELSE compressPngData(raw.bytes)
  IN  IF Len(cand.bytes) < sp.end - k THEN cand.bytes ELSE raw.bytes

\* the spans the main loop processes from offset i on, in the order it meets them
RECURSIVE SpansFrom(_, _)
SpansFrom(d, i) ==
  LET ks == {k \in i..(Len(d) - 1) : SpanAt(d, k).kind # "none"}
  IN  IF ks = {} THEN <<>>
      ELSE LET k == Min(ks)
           IN  << [start |-> k, end |-> SpanAt(d, k).end, kind |-> SpanAt(d, k).kind,
                   chosen |-> ChosenAt(d, k)] >>
               \o SpansFrom(d, SpanAt(d, k).end)

(***************************************************************************)
(* removeMetadataBinary                                                    *)
(***************************************************************************)
\* end of the value: the next '/' or ">>" at or after offset from, else len
ValueEnd(content, from) ==
  Min({e \in from..Len(content) :
         \/ e = Len(content)
         \/ B(content, e) = Slash
         \/ HasPrefixAt(content, e, DictEnd)})

RemovePatternOnce(content, pattern) ==
  LET start == Index(content, pattern)
  IN  IF start = -1 THEN content
      ELSE Slice(content, 0, start)
           \o Slice(content, ValueEnd(content, start + Len(pattern)), Len(content))

\* the inner `for` of removeMetadataBinary for one pattern
RECURSIVE RemovePattern(_, _)
RemovePattern(content, pattern) ==
  LET start == Index(content, pattern)
  IN  IF start = -1 THEN content
      ELSE LET end == ValueEnd(content, start + Len(pattern))
           IN  RemovePattern(Slice(content, 0, start) \o Slice(content, end, Len(content)),
                             pattern)

\* the outer `for` over patterns[n..]
RECURSIVE RemovePatternsFrom(_, _)
RemovePatternsFrom(content, n) ==
  IF n > Len(patterns) THEN content
  ELSE RemovePatternsFrom(RemovePattern(content, patterns[n]), n + 1)

removeMetadataSkipFirst(data) == RemovePatternsFrom(data, 2)
removeMetadataBinary(data) == RemovePatternsFrom(data, 1)

(***************************************************************************)
(* optimizeStreams                                                         *)
(***************************************************************************)
RECURSIVE CollapseAll(_, _, _)
\* for strings.Contains(content, old) { content = ReplaceAll(content, old, new) }
CollapseAll(content, old, new) ==
  IF Contains(content, old) THEN CollapseAll(ReplaceAll(content, old, new), old, new)
  ELSE content

optimizeStreams(data) ==
  LET c1 == ReplaceAll(data, CR \o LF, LF)
      c2 == ReplaceAll(c1, CR, LF)
      c3 == CollapseAll(c2, LF \o LF \o LF, LF \o LF)
      c4 == ReplaceAll(c3, SP \o LF, LF)
      c5 == ReplaceAll(c4, TAB \o LF, LF)
  IN  CollapseAll(c5, SP \o SP, SP)

(***************************************************************************)
(* compressPDFData: header check and final decision                        *)
(***************************************************************************)
IsPDFAnywhere(inputBytes) == Contains(inputBytes, PdfMagic)
IsPDF(inputBytes) == Len(inputBytes) >= 4 /\ Slice(inputBytes, 0, 4) = PdfMagic

\* ratio < 0.95 with ratio = float64(len(compressed)) / float64(len(inputBytes)).
\* The float64 quotient of two lengths below 2^40 is below the double 0.95
\* exactly when 100 * len(compressed) < 95 * len(inputBytes).
RatioAnyReduction(compressedLen, inputLen) == compressedLen < inputLen
RatioBelow95(compressedLen, inputLen) == 100 * compressedLen < 95 * inputLen

(***************************************************************************)
(* Inputs of the model                                                     *)
(***************************************************************************)
\* filler bytes inside an embedded image (MinImageSpan is 1000)
PadLen == 1000
\* longest standalone image buffer
MaxImgLen == 40

\* filler of the input that is exactly 95% long after the metadata stage
EdgePad == 165

\* n filler bytes ('A')
Pad(n) == Fill(n, 65)
CreatorEntry == KeyCreator \o <<32, 40, 84, 101, 115, 116, 41>>   \* "/Creator (Test)"
TitleEntry == KeyTitle \o <<40, 120, 41>> \o DictEnd              \* "/Title(x)>>"

\* FF D8, an optional comment segment of declared length c, f filler bytes, FF D9
JpegBytes(c, f) ==
  <<255, 216>>
  \o (IF c > 0 THEN <<255, 254, c \div 256, c % 256>> \o Pad(c - 2) ELSE <<>>)
  \o Pad(f) \o <<255, 217>>

\* signature, one IDAT chunk of declared length n holding f bytes, extra chunks, IEND
PngBytes(n, f, extra) ==
  PngSignature \o <<13, 10, 26, 10>>
  \o <<0, 0, n \div 256, n % 256, 73, 68, 65, 84>> \o Pad(f) \o <<1, 2, 3, 4>>
  \o extra
  \o <<0, 0, 0, 0>> \o ChunkEnd \o <<174, 66, 96, 130>>

TimeChunk == <<0, 0, 0, 7>> \o ChunkTime \o Fill(7, 1) \o <<9, 9, 9, 9>>

JpegPieces ==
  { <<>>,
    JpegBytes(0, PadLen),                                  \* nothing to strip
    JpegBytes(CommentLimit + 1, 0),                        \* a large comment segment
    JpegBytes(0, 10),                                      \* too short a span
    <<255, 216>> \o Pad(PadLen),                           \* no closing marker
    \* a comment segment whose declared length points past the end
    <<255, 216>> \o Pad(PadLen) \o <<255, 254, 255, 255, 0, 255, 217>> }

PngPieces ==
  { <<>>,
    PngBytes(PadLen, PadLen, <<>>),                        \* nothing to strip
    PngBytes(PadLen, PadLen, TimeChunk),                   \* a tIME chunk
    PngBytes(65535, PadLen, <<>>),                         \* chunk length past the end
    PngSignature \o Pad(PadLen) \o ChunkEnd \o <<174>> }  \* IEND cut in its CRC

MetaPieces == { <<>>, CreatorEntry, TitleEntry }

SpacePieces == { <<>>, <<10, 10, 10, 10, 32, 32, 32, 13, 10, 32, 10, 255, 216>> }

PdfBodies ==
  { j \o g \o m \o w : j \in JpegPieces, g \in PngPieces, m \in MetaPieces, w \in SpacePieces }

\* buffers handed to compressPDF: PDFs, and buffers without the %PDF magic
PdfInputs ==
  { PdfMagic \o b : b \in PdfBodies }
  \cup { <<>>, <<37>>, <<37, 80, 68>>, <<37, 80, 68, 88>>,
         <<80, 68, 70, 37>> \o CreatorEntry,
         PdfMagic \o Pad(EdgePad) \o TitleEntry,
         \* a key twice, and a key split in two by another entry: "/Crea/Title(x)>>tor"
         PdfMagic \o CreatorEntry \o CreatorEntry
           \o <<47, 67, 114, 101, 97>> \o TitleEntry \o <<116, 111, 114>>,
         \* a JPEG whose body holds whitespace bytes and a metadata key
         PdfMagic \o <<255, 216>>
           \o <<255, 254, (CommentLimit + 1) \div 256, (CommentLimit + 1) % 256>>
           \o Pad(CommentLimit - 1) \o <<32, 32, 13, 65>> \o KeyTitle \o <<66, 255, 217>>,
         <<32>> \o PdfMagic \o JpegBytes(CommentLimit + 1, 0) \o CreatorEntry }

\* the progress argument: absent or undefined, a function, a function that may throw
Sinks == {"none", "ok", "throws"}

MimeJpeg == <<105, 109, 97, 103, 101, 47, 106, 112, 101, 103>>     \* "image/jpeg"
MimePng == <<105, 109, 97, 103, 101, 47, 112, 110, 103>>            \* "image/png"
MimeWebp == <<105, 109, 97, 103, 101, 47, 119, 101, 98, 112>>      \* "image/webp"
Mimes == {MimeJpeg, MimePng, MimeWebp}
Formats == {"jpeg", "png", "junk"}
Dims == {<<1, 1>>, <<2048, 100>>, <<4096, 1000>>, <<3000, 5000>>, <<2049, 2049>>, <<4096, 1>>}
ImgLens == {0, 20, MaxImgLen}

\* a standalone image file: its bytes, what they really encode, its pixel size
ImageInputs ==
  { [bytes |-> Fill(n, 0), format |-> f, dim |-> d] :
      n \in ImgLens, f \in Formats, d \in Dims }

\* byte lengths an encoder may produce for an input of n bytes; -1: the encode failed
EncodeOutcomes(n) ==
  { -1, (n * 3) \div 4, (n * 4) \div 5 - 1, (n * 4) \div 5, (n * 19) \div 20 - 1,
    (n * 19) \div 20, n - 1, n, n + 1 } \ {0}

\* largest file handed to the worker, most XObjects of a PDF
WMaxSize == 30
MaxXObjects == 2

TypePdf == <<97, 112, 112, 108, 105, 99, 97, 116, 105, 111, 110, 47, 112, 100, 102>>
TypeText == <<116, 101, 120, 116, 47, 112, 108, 97, 105, 110>>     \* "text/plain"
NamePdfUpper == <<65, 46, 80, 68, 70>>                             \* "A.PDF"
NameBin == <<97, 46, 98, 105, 110>>                                \* "a.bin"

\* XObjects of a PDF as the worker sees them: an image of at least 5000 bytes, a
\* smaller image, a non-image XObject, an image whose stream cannot be read
XObjectKinds == {"image", "small", "other", "broken"}
XObjectLists == UNION { [1..n -> XObjectKinds] : n \in 0..MaxXObjects }

\* event.data: hasType is FALSE for a message without fileType; loads tells
\* whether PDFDocument.load accepts the bytes
WorkerFiles ==
  { [byteLength |-> n, hasType |-> h, fileType |-> t, fileName |-> nm,
     loads |-> l, xobjs |-> xs] :
      n \in {0, 1, WMaxSize}, h \in BOOLEAN,
      t \in {MimePng, MimeJpeg, TypePdf, TypeText, <<>>},
      nm \in {NamePdfUpper, NameBin}, l \in BOOLEAN, xs \in XObjectLists }

(***************************************************************************)
(* State of one call of the WASM engine                                    *)
(***************************************************************************)
VARIABLES
  pc,          \* position of the call's goroutine
  call,        \* the arguments of the call
  progress,    \* values passed to the progress callback so far
  compressed,  \* compressPDFData: the working buffer
  outcome,     \* the promise: "pending", "resolved", "rejected"
  result,      \* the object the promise resolved with
  panicked,    \* the deferred recover() ran
  width, height,          \* compressImage: pixel size of img
  bestResult, bestSize,   \* compressImage: best candidate so far
  attempts     \* compressImage: what the encode attempts of this call returned

(***************************************************************************)
(* State of the compression worker (compressionWorker.ts)                  *)
(***************************************************************************)
VARIABLES
  wpc,       \* position of the message handler
  wfile,     \* event.data of the message being handled
  wposted,   \* messages posted back so far
  wdata,     \* the buffer the compression function returned
  wbest,     \* compressImage: bestResult
  wstep,     \* index of the strategy / XObject being processed
  wdone      \* compressImagesInPdf: done

(***************************************************************************)
(* State of one compressFile call of the useCompression hook                *)
(* (hooks/useCompression.ts) and of the compressPDFHybrid call it makes     *)
(***************************************************************************)
VARIABLES
  kpc,         \* position of compressFile / HybridPDFCompressor.compressPDF
  kfile,       \* the File and what the libraries make of it
  kstate,      \* the hook's state: isCompressing, progress, result, error
  kprogress,   \* values passed to updateProgress so far, in hundredths
  kpage,       \* compressPDF: pageNum
  kprocessed,  \* compressPDF: processedPages
  kreturn      \* what compressFile returned

(***************************************************************************)
(* State of the page that hands several files to one shared worker         *)
(* (Index of part_002 over the useCompression of part_006)                  *)
(***************************************************************************)
VARIABLES
  sphase,      \* per file: "none", "reading" (await file.arrayBuffer()), "sent", "failed"
  slisteners,  \* files whose handleMessage is registered on the worker
  sinbox,      \* compress messages the worker has not taken yet, by file
  stask,       \* per file: messages its worker task has posted; -1: not started
  smail,       \* messages posted by the worker and not yet dispatched
  scalls       \* per file: the callbacks invoked, each with the task its message came from

(***************************************************************************)
(* State of the WASM loader (loadWasm of lib/wasm.ts)                       *)
(***************************************************************************)
VARIABLES
  wasmModule,  \* "null", or "ready" once the wrapper with isReady is stored
  isLoading,   \* the module-level flag
  windowGo,    \* window.Go is defined
  lcall,       \* per loadWasm call: where it is, or how its promise settled
  lfetches     \* fetches of /pdf-turbo.wasm started so far

(***************************************************************************)
(* State of the sequential Index page (pages/Index.tsx)                     *)
(***************************************************************************)
VARIABLES
  istatus,   \* per file of the batch: "none", or the status of its entry
  ilisted,   \* the files whose entry is in the `files` state
  ipos,      \* the file the for loop of handleFilesAdded is at
  ipc        \* "idle", "next" (top of the loop), "await" (compressFile), "finished"

vars == << pc, call, progress, compressed, outcome, result, panicked,
           width, height, bestResult, bestSize, attempts,
           wpc, wfile, wposted, wdata, wbest, wstep, wdone,
           kpc, kfile, kstate, kprogress, kpage, kprocessed, kreturn,
           sphase, slisteners, sinbox, stask, smail, scalls,
           wasmModule, isLoading, windowGo, lcall, lfetches,
           istatus, ilisted, ipos, ipc >>

NoCall == [fn |-> "none"]
NoResult == [data |-> <<>>, originalSize |-> -1, compressedSize |-> -1]
NoFile == [fileType |-> "none"]
NoBuffer == [src |-> "none", byteLength |-> -1]

\* no encode attempted yet: tried and failed count the attempts and the ones that
\* returned an error; least is the smallest length a successful attempt produced
\* (-1: none yet), leastTag the earliest attempt that produced it and ties the
\* number of later successful attempts of that same length
NoAttempts == [tried |-> 0, failed |-> 0, least |-> -1, leastTag |-> 0, ties |-> 0]

EngineInit ==
  /\ pc = "idle"
  /\ call = NoCall
  /\ progress = <<>>
  /\ compressed = <<>>
  /\ outcome = "pending"
  /\ result = NoResult
  /\ panicked = FALSE
  /\ width = 0
  /\ height = 0
  /\ bestResult = <<>>
  /\ bestSize = 0
  /\ attempts = NoAttempts

WorkerInit ==
  /\ wpc = "idle"
  /\ wfile = NoFile
  /\ wposted = <<>>
  /\ wdata = NoBuffer
  /\ wbest = NoBuffer
  /\ wstep = 0
  /\ wdone = 0

\* useState({ isCompressing: false, progress: 0, result: null, error: null })
NoRecord == [originalSize |-> -1]
HookState0 == [isCompressing |-> FALSE, progress |-> 0, result |-> NoRecord, error |-> FALSE]
NotReturned == [kind |-> "none"]

HookInit ==
  /\ kpc = "idle"
  /\ kfile = NoFile
  /\ kstate = HookState0
  /\ kprogress = <<>>
  /\ kpage = 0
  /\ kprocessed = 0
  /\ kreturn = NotReturned

\* files of one handleFilesAdded batch, progress messages of one worker task
NumFiles == 2
ProgressPosts == 2

SharedInit ==
  /\ sphase = [i \in 1..NumFiles |-> "none"]
  /\ slisteners = {}
  /\ sinbox = <<>>
  /\ stask = [i \in 1..NumFiles |-> -1]
  /\ smail = <<>>
  /\ scalls = [i \in 1..NumFiles |-> <<>>]

\* loadWasm calls made in one page
NumCalls == 3

\* let wasmModule = null; let isLoading = false
LoaderInit ==
  /\ wasmModule = "null"
  /\ isLoading = FALSE
  /\ windowGo = FALSE
  /\ lcall = [c \in 1..NumCalls |-> "none"]
  /\ lfetches = 0

\* files of one handleFilesAdded batch of the sequential page
BatchSize == 2

\* useState<CompressedFile[]>([])
IndexInit ==
  /\ istatus = [i \in 1..BatchSize |-> "none"]
  /\ ilisted = {}
  /\ ipos = 0
  /\ ipc = "idle"

Init == EngineInit /\ WorkerInit /\ HookInit /\ SharedInit /\ LoaderInit /\ IndexInit

pdfVars == << compressed >>
imgVars == << width, height, bestResult, bestSize, attempts >>
engineVars == << pc, call, progress, compressed, outcome, result, panicked,
                 width, height, bestResult, bestSize, attempts >>
workerVars == << wpc, wfile, wposted, wdata, wbest, wstep, wdone >>
hookVars == << kpc, kfile, kstate, kprogress, kpage, kprocessed, kreturn >>
sharedVars == << sphase, slisteners, sinbox, stask, smail, scalls >>
loaderVars == << wasmModule, isLoading, windowGo, lcall, lfetches >>
indexVars == << istatus, ilisted, ipos, ipc >>
appVars == << sharedVars, loaderVars, indexVars >>
coreVars == << engineVars, workerVars, hookVars >>

\* reportProgress(v): the callback is invoked unless it is undefined or null
Reported(v) == IF call.sink = "none" THEN progress ELSE Append(progress, v)

\* whether this invocation of the callback throws (Value.Invoke then panics)
Throws == IF call.sink = "throws" THEN BOOLEAN ELSE {FALSE}

RecoverSwallow ==
  /\ pc' = "done"
  /\ panicked' = TRUE
  /\ UNCHANGED << outcome, result >>

\* defer func() { if r := recover(); r != nil { reject.Invoke(...) } }()
Recover ==
  /\ pc' = "done"
  /\ panicked' = TRUE
  /\ outcome' = "rejected"
  /\ result' = NoResult

\* reject.Invoke(msg); return
Reject ==
  /\ pc' = "done"
  /\ outcome' = "rejected"
  /\ UNCHANGED << result, panicked >>

\* result object of compressPDF / compressImage; resolve.Invoke(result)
ResultOf(outputBytes, inputBytes) ==
  [data |-> outputBytes, originalSize |-> Len(inputBytes),
   compressedSize |-> Len(outputBytes)]

Resolve(outputBytes) ==
  /\ pc' = "done"
  /\ outcome' = "resolved"
  /\ result' = ResultOf(outputBytes, call.bytes)
  /\ UNCHANGED panicked

(***************************************************************************)
(* compressPDF                                                             *)
(***************************************************************************)
\* compressPDF(this, args): the synchronous part
CallCompressPDF ==
  /\ pc = "idle"
  /\ \E nargs \in 0..2, bytes \in PdfInputs, sink \in Sinks :
       /\ nargs = 0 => bytes = <<>>
       /\ nargs < 2 => sink = "none"
       /\ call' = [fn |-> "compressPDF", nargs |-> nargs, bytes |-> bytes, sink |-> sink]
       /\ IF nargs < 1
          THEN Reject
          ELSE pc' = "pdf_go" /\ UNCHANGED << outcome, result, panicked >>
  /\ UNCHANGED << progress, pdfVars, imgVars, workerVars, hookVars, appVars >>

\* compressPDF(x, ...) or compressImage(x, mimeType, ...) with x undefined, null or
\* a number: inputArray.Length() of the synchronous part panics, outside the
\* goroutine and its deferred recover, so the Go program exits and the call
\* returns no promise
CallNotArray ==
  /\ pc = "idle"
  /\ \E fn \in {"compressPDF", "compressImage"}, more \in 0..1 :
       call' = IF fn = "compressPDF"
               THEN [fn |-> fn, nargs |-> 1 + more, bytes |-> <<>>, sink |-> "none",
                     data |-> "undefined"]
               ELSE [fn |-> fn, nargs |-> 2 + more, bytes |-> <<>>, sink |-> "none",
                     format |-> "junk", dim |-> <<1, 1>>, mimeType |-> MimeJpeg,
                     data |-> "undefined"]
  /\ pc' = "exited"
  /\ UNCHANGED << progress, outcome, result, panicked, pdfVars, imgVars,
                  workerVars, hookVars, appVars >>

\* the goroutine up to reportProgress(10)
PdfBegin ==
  /\ pc = "pdf_go"
  /\ IF Len(call.bytes) = 0
     THEN Reject /\ UNCHANGED progress
     ELSE /\ progress' = Reported(10)
          /\ \E thrown \in Throws :
               IF thrown THEN Recover
               ELSE pc' = "pdf_header" /\ UNCHANGED << outcome, result, panicked >>
  /\ UNCHANGED << call, pdfVars, imgVars, workerVars, hookVars, appVars >>

\* compressPDFData: the magic check, reportProgress(20)
PdfHeader ==
  /\ pc = "pdf_header"
  /\ IF ~IsPDF(call.bytes)
     THEN Resolve(call.bytes) /\ UNCHANGED progress
     ELSE /\ progress' = Reported(20)
          /\ \E thrown \in Throws :
               IF thrown THEN Recover
               ELSE pc' = "pdf_images" /\ UNCHANGED << outcome, result, panicked >>
  /\ UNCHANGED << call, pdfVars, imgVars, workerVars, hookVars, appVars >>

\* compressed := compressEmbeddedImages(inputBytes); reportProgress(50)
PdfImages ==
  /\ pc = "pdf_images"
  /\ LET r == compressEmbeddedImages(call.bytes)
     IN  IF r.panic
         THEN Recover /\ UNCHANGED << progress, compressed >>
         ELSE /\ compressed' = r.bytes
              /\ progress' = Reported(50)
              /\ \E thrown \in Throws :
                   IF thrown THEN Recover
                   ELSE pc' = "pdf_metadata" /\ UNCHANGED << outcome, result, panicked >>
  /\ UNCHANGED << call, imgVars, workerVars, hookVars, appVars >>

\* compressed = removeMetadataBinary(compressed); reportProgress(70)
PdfMetadata ==
  /\ pc = "pdf_metadata"
  /\ compressed' = removeMetadataBinary(compressed)
  /\ progress' = Reported(70)
  /\ \E thrown \in Throws :
       IF thrown THEN Recover
       ELSE pc' = "pdf_streams" /\ UNCHANGED << outcome, result, panicked >>
  /\ UNCHANGED << call, imgVars, workerVars, hookVars, appVars >>

\* compressed = optimizeStreams(compressed); reportProgress(90)
PdfStreams ==
  /\ pc = "pdf_streams"
  /\ compressed' = optimizeStreams(compressed)
  /\ progress' = Reported(90)
  /\ \E thrown \in Throws :
       IF thrown THEN Recover
       ELSE pc' = "pdf_select" /\ UNCHANGED << outcome, result, panicked >>
  /\ UNCHANGED << call, imgVars, workerVars, hookVars, appVars >>

\* the final decision of compressPDFData, reportProgress(100), the result object
PdfSelect ==
  /\ pc = "pdf_select"
  /\ progress' = Reported(100)
  /\ \E thrown \in Throws :
       IF thrown THEN Recover
       ELSE IF RatioBelow95(Len(compressed), Len(call.bytes))
            THEN Resolve(compressed)
            ELSE Resolve(call.bytes)
  /\ UNCHANGED << call, pdfVars, imgVars, workerVars, hookVars, appVars >>

(***************************************************************************)
(* compressImage                                                           *)
(***************************************************************************)
maxDimension == 2048
SubJpeg == <<106, 112, 101, 103>>                    \* "jpeg"
SubJpg == <<106, 112, 103>>                          \* "jpg"
SubPng == <<112, 110, 103>>                          \* "png"

\* which decoder the mimeType selects
DecoderFor(mimeType) ==
  IF Contains(mimeType, SubJpeg) \/ Contains(mimeType, SubJpg) THEN "jpeg"
  ELSE IF Contains(mimeType, SubPng) THEN "png"
  ELSE "generic"

DecodeLenient(format, mimeType) == format # "junk"

\* err == nil after the decode: jpeg.Decode reads JPEG, png.Decode reads PNG,
\* image.Decode sniffs the registered formats (image/jpeg and image/png are imported)
DecodeOk(format, mimeType) ==
  \/ DecoderFor(mimeType) = "jpeg" /\ format = "jpeg"
  \/ DecoderFor(mimeType) = "png" /\ format = "png"
  \/ DecoderFor(mimeType) = "generic" /\ format \in {"jpeg", "png"}

\* float64(bestSize) >= float64(len(inputBytes))*0.8.  The double nearest 0.8 is
\* 0.8 * (1 + 2^-54), so the product rounds to 4n/5 whenever that is an integer.
AtLeast80Strict(size, inputLen) == 5 * size > 4 * inputLen

AtLeast80(size, inputLen) == 5 * size >= 4 * inputLen

AtLeast95Strict(size, inputLen) == 20 * size > 19 * inputLen
\* float64(bestSize) >= float64(len(inputBytes))*0.95, likewise exact on lengths
AtLeast95(size, inputLen) == 20 * size >= 19 * inputLen

\* compressImage(this, args): the synchronous part
CallCompressImage ==
  /\ pc = "idle"
  /\ \E nargs \in 0..3, file \in ImageInputs, mimeType \in Mimes, sink \in Sinks :
       /\ Len(file.bytes) = 0 => file.format = "junk"
       /\ nargs < 2 => file.bytes = <<>> /\ file.dim = <<1, 1>> /\ mimeType = MimeJpeg
       /\ nargs < 3 => sink = "none"
       /\ call' = [fn |-> "compressImage", nargs |-> nargs, bytes |-> file.bytes,
                   format |-> file.format, dim |-> file.dim,
                   mimeType |-> mimeType, sink |-> sink]
       /\ IF nargs < 2
          THEN Reject
          ELSE pc' = "img_go" /\ UNCHANGED << outcome, result, panicked >>
  /\ UNCHANGED << progress, pdfVars, imgVars, workerVars, hookVars, appVars >>

\* the goroutine up to reportProgress(20)
ImgBegin ==
  /\ pc = "img_go"
  /\ progress' = Reported(20)
  /\ \E thrown \in Throws :
       IF thrown THEN Recover
       ELSE pc' = "img_decode" /\ UNCHANGED << outcome, result, panicked >>
  /\ UNCHANGED << call, pdfVars, imgVars, workerVars, hookVars, appVars >>

\* decode by mimeType; reportProgress(40); bounds of img
ImgDecode ==
  /\ pc = "img_decode"
  /\ IF ~DecodeOk(call.format, call.mimeType)
     THEN Reject /\ UNCHANGED << progress, width, height >>
     ELSE /\ progress' = Reported(40)
          /\ width' = call.dim[1]
          /\ height' = call.dim[2]
          /\ \E thrown \in Throws :
               IF thrown THEN Recover
               ELSE pc' = "img_resize" /\ UNCHANGED << outcome, result, panicked >>
  /\ UNCHANGED << call, pdfVars, bestResult, bestSize, attempts, workerVars, hookVars, appVars >>

NeedsResizeBoth(w, h) == w > maxDimension /\ h > maxDimension

\* if width > maxDimension || height > maxDimension
NeedsResize(w, h) == w > maxDimension \/ h > maxDimension

\* resize if too large; reportProgress(60); bestSize := len(inputBytes)
ImgResize ==
  /\ pc = "img_resize"
  /\ IF NeedsResize(width, height)
     THEN IF width > height
          THEN height' = (height * maxDimension) \div width /\ width' = maxDimension
          ELSE width' = (width * maxDimension) \div height /\ height' = maxDimension
     ELSE UNCHANGED << width, height >>
  /\ progress' = Reported(60)
  /\ bestResult' = <<>>
  /\ bestSize' = Len(call.bytes)
  /\ attempts' = NoAttempts
  /\ \E thrown \in Throws :
       IF thrown THEN Recover
       ELSE pc' = "img_q85" /\ UNCHANGED << outcome, result, panicked >>
  /\ UNCHANGED << call, pdfVars, workerVars, hookVars, appVars >>

AttemptKeepsLast(size, tag) ==
  IF size # -1
  THEN /\ bestResult' = Fill(size, tag)
       /\ bestSize' = IF size < bestSize THEN size ELSE bestSize
  ELSE UNCHANGED << bestResult, bestSize >>

AttemptIgnoresErr(size, tag) ==
  IF size = -1
  THEN bestResult' = <<>> /\ bestSize' = 0
  ELSE IF size < bestSize
  THEN bestResult' = Fill(size, tag) /\ bestSize' = size
  ELSE UNCHANGED << bestResult, bestSize >>

AttemptReplacesTies(size, tag) ==
  IF size # -1 /\ size <= bestSize
  THEN bestResult' = Fill(size, tag) /\ bestSize' = size
  ELSE UNCHANGED << bestResult, bestSize >>

\* one encode attempt: the candidate replaces the best if it is strictly smaller
Attempt(size, tag) ==
  IF size # -1 /\ size < bestSize
  THEN bestResult' = Fill(size, tag) /\ bestSize' = size
  ELSE UNCHANGED << bestResult, bestSize >>

\* the attempt tagged tag returned size bytes, or an error (size = -1)
Logged(size, tag) ==
  attempts' =
    [tried |-> attempts.tried + 1,
     failed |-> attempts.failed + (IF size = -1 THEN 1 ELSE 0),
     least |-> IF size # -1 /\ (attempts.least = -1 \/ size < attempts.least)
               THEN size ELSE attempts.least,
     leastTag |-> IF size # -1 /\ (attempts.least = -1 \/ size < attempts.least)
                  THEN tag ELSE attempts.leastTag,
     ties |-> IF size # -1 /\ (attempts.least = -1 \/ size < attempts.least) THEN 0
              ELSE IF size = attempts.least THEN attempts.ties + 1
              ELSE attempts.ties]

\* jpeg.Encode at quality q, then reportProgress(p) if the code reports there
ImgJpeg(at, q, p, next) ==
  /\ pc = at
  /\ \E size \in EncodeOutcomes(Len(call.bytes)) : Attempt(size, q) /\ Logged(size, q)
  /\ IF p = 0
     THEN pc' = next /\ UNCHANGED << progress, outcome, result, panicked >>
     ELSE /\ progress' = Reported(p)
          /\ \E thrown \in Throws :
               IF thrown THEN Recover
               ELSE pc' = next /\ UNCHANGED << outcome, result, panicked >>
  /\ UNCHANGED << call, pdfVars, width, height, workerVars, hookVars, appVars >>

ImgJpeg85 == ImgJpeg("img_q85", 85, 70, "img_q75")
ImgJpeg75 == ImgJpeg("img_q75", 75, 80, "img_q60")
ImgJpeg60 == ImgJpeg("img_q60", 60, 0, "img_q40")
ImgJpeg40 == ImgJpeg("img_q40", 40, 90, "img_png")

\* the PNG fallback
ImgPng ==
  /\ pc = "img_png"
  /\ IF AtLeast80(bestSize, Len(call.bytes)) /\ ~Contains(call.mimeType, SubPng)
     THEN \E size \in EncodeOutcomes(Len(call.bytes)) : Attempt(size, 1) /\ Logged(size, 1)
     ELSE UNCHANGED << bestResult, bestSize, attempts >>
  /\ pc' = "img_select"
  /\ UNCHANGED << call, progress, outcome, result, panicked, pdfVars, width, height, workerVars, hookVars, appVars >>

\* the final policy, the result object, reportProgress(100), resolve
ImgSelect ==
  /\ pc = "img_select"
  /\ progress' = Reported(100)
  /\ \E thrown \in Throws :
       IF thrown THEN Recover
       ELSE IF AtLeast95(bestSize, Len(call.bytes))
            THEN Resolve(call.bytes)
            ELSE Resolve(bestResult)
  /\ UNCHANGED << call, pdfVars, imgVars, workerVars, hookVars, appVars >>

(***************************************************************************)
(* compressBatch                                                           *)
(***************************************************************************)
\* most files of one batch
MaxBatch == 2

\* the {data, type} objects compressFiles builds: byte length and MIME type
BatchFiles == { [size |-> n, type |-> t] : n \in {0, 1, 20}, t \in {TypePdf, MimePng, TypeText} }

RECURSIVE BatchListsOf(_)
BatchListsOf(n) ==
  IF n = 0 THEN { <<>> }
  ELSE LET shorter == BatchListsOf(n - 1)
       IN  shorter \cup { Append(l, f) : l \in {x \in shorter : Len(x) = n - 1}, f \in BatchFiles }

\* the values a JavaScript caller or the Promise constructor passes
JsArray(items) == [type |-> "object", items |-> items]
JsFunction(name) == [type |-> "function", name |-> name]
JsUndefined == [type |-> "undefined"]

\* compressBatch(files, progress): the promise is created and the goroutine starts
CallCompressBatch ==
  /\ pc = "idle"
  /\ \E files \in BatchListsOf(MaxBatch), cb \in {JsFunction("progress"), JsUndefined} :
       call' = [fn |-> "compressBatch", nargs |-> 2, bytes |-> <<>>,
                sink |-> IF cb = JsUndefined THEN "none" ELSE "ok",
                outerArgs |-> << JsArray(files), cb >>]
  /\ pc' = "batch_go"
  /\ UNCHANGED << progress, outcome, result, panicked, pdfVars, imgVars,
                  workerVars, hookVars, appVars >>

\* what `args` names inside the promise handler: the handler's own parameter,
\* which hides the parameter of compressBatch
HandlerArgs == << JsFunction("resolve"), JsFunction("reject") >>

\* (i*100 + p) / filesLength for p = 100 and i = 0 .. n-1, then reportProgress(100)
BatchProgress(n) == [k \in 1..(n + 1) |-> IF k <= n THEN (k * 100) \div n ELSE 100]

\* the goroutine of compressBatch: Value.Length panics on a value that is neither
\* an object nor a string; otherwise one result per element in order (of a
\* result only originalSize is kept here)
BatchGo ==
  /\ pc = "batch_go"
  /\ LET args == HandlerArgs
     IN  IF Len(args) < 2
         THEN Reject /\ UNCHANGED progress
         ELSE LET filesArray == args[1]
                  progressCallback == args[2]
              IN  IF filesArray.type \notin {"object", "string"}
                  THEN Recover /\ UNCHANGED progress
                  ELSE /\ pc' = "done"
                       /\ outcome' = "resolved"
                       /\ result' = [list |-> [i \in 1..Len(filesArray.items) |->
                                        [originalSize |-> filesArray.items[i].size]]]
                       /\ progress' = IF progressCallback.type = "undefined" THEN progress
                                      ELSE progress \o BatchProgress(Len(filesArray.items))
                       /\ UNCHANGED panicked
  /\ UNCHANGED << call, pdfVars, imgVars, workerVars, hookVars, appVars >>

(***************************************************************************)
(* compressFile of lib/wasm.ts: the wrapper that picks the entry point for  *)
(* a File, with the module loaded                                           *)
(***************************************************************************)
PrefixImage == <<105, 109, 97, 103, 101, 47>>        \* "image/"
SuffixPdf == <<46, 112, 100, 102>>                   \* ".pdf"

\* s.toLowerCase() on ASCII
ToLowerCase(s) == [k \in 1..Len(s) |-> IF s[k] >= 65 /\ s[k] <= 90 THEN s[k] + 32 ELSE s[k]]

\* s.endsWith(suffix)
EndsWith(s, suffix) ==
  Len(s) >= Len(suffix) /\ HasPrefixAt(s, Len(s) - Len(suffix), suffix)

NamePng == <<98, 46, 112, 110, 103>>                 \* "b.png"

\* the extensions of /\.(jpg|jpeg|png|gif|webp|bmp|tiff)$/i
ImageSuffixes ==
  { <<46, 106, 112, 103>>, <<46, 106, 112, 101, 103>>, <<46, 112, 110, 103>>,
    <<46, 103, 105, 102>>, <<46, 119, 101, 98, 112>>, <<46, 98, 109, 112>>,
    <<46, 116, 105, 102, 102>> }

\* file.type === 'application/pdf' || file.name.toLowerCase().endsWith('.pdf')
isPDF(fileType, fileName) ==
  fileType = TypePdf \/ EndsWith(ToLowerCase(fileName), SuffixPdf)

\* file.type.startsWith('image/') || the extension test
isImage(fileType, fileName) ==
  \/ HasPrefixAt(fileType, 0, PrefixImage)
  \/ \E x \in ImageSuffixes : EndsWith(ToLowerCase(fileName), x)

\* the Files given to compressFile: a PDF, a JPEG and a PNG, under every
\* combination of MIME type and name
Files ==
  { [bytes |-> c.bytes, format |-> c.format, dim |-> <<1, 1>>, fileType |-> t, fileName |-> nm] :
      c \in { [bytes |-> PdfMagic \o CreatorEntry, format |-> "junk"],
              [bytes |-> Fill(20, 0), format |-> "jpeg"],
              [bytes |-> Fill(20, 0), format |-> "png"] },
      t \in {TypePdf, MimePng, MimeJpeg, MimeWebp, TypeText, <<>>},
      nm \in {NamePdfUpper, NameBin, NamePng} }

\* compressFile: isPDF(file), wasm.compressPDF(uint8Array, onProgress)
FileToPDF ==
  /\ pc = "idle"
  /\ \E f \in Files, sink \in Sinks :
       /\ isPDF(f.fileType, f.fileName)
       /\ call' = [fn |-> "compressPDF", nargs |-> 2, bytes |-> f.bytes, sink |-> sink,
                   fileType |-> f.fileType, fileName |-> f.fileName]
  /\ pc' = "pdf_go"
  /\ UNCHANGED << progress, outcome, result, panicked, pdfVars, imgVars, workerVars, hookVars, appVars >>

\* compressFile: isImage(file), wasm.compressImage(uint8Array, file.type, onProgress)
FileToImage ==
  /\ pc = "idle"
  /\ \E f \in Files, sink \in Sinks :
       /\ ~isPDF(f.fileType, f.fileName)
       /\ isImage(f.fileType, f.fileName)
       /\ call' = [fn |-> "compressImage", nargs |-> 3, bytes |-> f.bytes,
                   format |-> f.format, dim |-> f.dim, mimeType |-> f.fileType,
                   sink |-> sink, fileType |-> f.fileType, fileName |-> f.fileName]
  /\ pc' = "img_go"
  /\ UNCHANGED << progress, outcome, result, panicked, pdfVars, imgVars, workerVars, hookVars, appVars >>

\* compressFile: throw new Error(`Unsupported file type`)
FileUnsupported ==
  /\ pc = "idle"
  /\ \E f \in Files :
       /\ ~isPDF(f.fileType, f.fileName)
       /\ ~isImage(f.fileType, f.fileName)
       /\ call' = [fn |-> "unsupported", bytes |-> f.bytes,
                   fileType |-> f.fileType, fileName |-> f.fileName]
  /\ Reject
  /\ UNCHANGED << progress, pdfVars, imgVars, workerVars, hookVars, appVars >>

(***************************************************************************)
(* The compression worker.  One action runs the handler from one await to  *)
(* the next.  Progress is kept in hundredths: onProgress(p) of a           *)
(* compression function posts 5 + p * 0.9, here 500 + 90 * p.              *)
(***************************************************************************)
\* the route self.onmessage takes
RouteOf(fileType, fileName) ==
  IF HasPrefixAt(fileType, 0, PrefixImage) THEN "image"
  ELSE IF fileType = TypePdf \/ EndsWith(ToLowerCase(fileName), SuffixPdf) THEN "pdf"
  ELSE "generic"

\* self.postMessage({ type: 'progress', progress: 5 })
FirstProgress == [type |-> "progress", progress100 |-> 500]

\* the callback handed to the compression functions; p100 is 100 * p
PostOf(p100) == [type |-> "progress", progress100 |-> 500 + (9 * p100) \div 10]
OnProgress(p) == PostOf(100 * p)

\* byteLength of pako's deflate(level 9) of n bytes: a zlib stream is at least
\* 8 bytes and a stored block costs 11 bytes more than its content
DeflateLengths(n) ==
  IF n = 0 THEN {8} ELSE {m \in {9, n \div 2, n - 1, n, n + 11} : m >= 9}

\* byteLength of what imageCompression or doc.save produce for n bytes; -1: it threw
LibraryOutcomes(n) == {-1, n \div 2, n, n + 1} \ {0}

\* --- self.onmessage up to its first await, per route ---

WorkerReceiveBad ==
  /\ wpc = "idle"
  /\ \E f \in WorkerFiles :
       /\ ~f.hasType /\ f.fileType = <<>> /\ ~f.loads /\ f.xobjs = <<>>
       /\ wfile' = f
       \* fileType.startsWith throws; the catch posts the error
       /\ wposted' = << FirstProgress, [type |-> "error"] >>
  /\ wpc' = "w_done"
  /\ UNCHANGED << wdata, wbest, wstep, wdone, engineVars, hookVars, appVars >>

\* compressImage up to the first imageCompression
WorkerReceiveImage ==
  /\ wpc = "idle"
  /\ \E f \in WorkerFiles :
       /\ f.hasType /\ RouteOf(f.fileType, f.fileName) = "image"
       /\ ~f.loads /\ f.xobjs = <<>>
       /\ wfile' = f
       /\ wbest' = [src |-> "original", byteLength |-> f.byteLength]
  /\ wposted' = << FirstProgress, OnProgress(20), OnProgress(40), OnProgress(40 + 15) >>
  /\ wstep' = 1
  /\ wpc' = "w_img_strategy"
  /\ UNCHANGED << wdata, wdone, engineVars, hookVars, appVars >>

\* imageCompression of strategy wstep settles; the next strategy starts, or
\* onProgress(100) and the return of bestResult
WorkerImageStrategy ==
  /\ wpc = "w_img_strategy"
  /\ \E m \in LibraryOutcomes(wfile.byteLength) :
       LET best == IF m # -1 /\ m < wbest.byteLength
                   THEN [src |-> "imageCompression", byteLength |-> m]
                   ELSE wbest
       IN  /\ wbest' = best
           /\ IF wstep < 3
              THEN /\ wposted' = Append(wposted, OnProgress(40 + (wstep + 1) * 15))
                   /\ wstep' = wstep + 1
                   /\ UNCHANGED << wpc, wdata >>
              ELSE /\ wposted' = Append(wposted, OnProgress(100))
                   /\ wdata' = best
                   /\ wpc' = "w_result"
                   /\ UNCHANGED wstep
  /\ UNCHANGED << wfile, wdone, engineVars, hookVars, appVars >>

\* compressPDF and compressImagesInPdf up to PDFDocument.load
WorkerReceivePdf ==
  /\ wpc = "idle"
  /\ \E f \in WorkerFiles :
       /\ f.hasType /\ RouteOf(f.fileType, f.fileName) = "pdf"
       /\ ~f.loads => f.xobjs = <<>>
       /\ wfile' = f
  /\ wposted' = << FirstProgress, OnProgress(10) >>
  /\ wpc' = "w_adv_load"
  /\ UNCHANGED << wdata, wbest, wstep, wdone, engineVars, hookVars, appVars >>

\* totalImages of the first pass
totalImages(xobjs) == Cardinality({k \in 1..Len(xobjs) : xobjs[k] # "other"})

\* 100 * (20 + (done / Math.max(totalImages, 1)) * 60)
ImageProgress100(done, total) ==
  2000 + (6000 * done) \div (IF total > 1 THEN total ELSE 1)

\* the second pass from XObject i until it awaits imageCompression or ends:
\* a small image counts as done and posts nothing, every other XObject posts
RECURSIVE XObjectRun(_, _, _)
XObjectRun(xobjs, i, done) ==
  IF i > Len(xobjs) \/ xobjs[i] = "image"
  THEN [posts |-> <<>>, next |-> i, done |-> done]
  ELSE IF xobjs[i] = "small"
  THEN XObjectRun(xobjs, i + 1, done + 1)
  ELSE LET rest == XObjectRun(xobjs, i + 1, done + 1)
       IN  [posts |-> << PostOf(ImageProgress100(done + 1, totalImages(xobjs))) >>
                      \o rest.posts,
            next |-> rest.next, done |-> rest.done]

\* PDFDocument.load settles in compressImagesInPdf
WorkerAdvLoad ==
  /\ wpc = "w_adv_load"
  /\ IF ~wfile.loads
     THEN \* rethrown; compressPDF's catch: onProgress(30), PDFDocument.load
          /\ wposted' = Append(wposted, OnProgress(30))
          /\ wpc' = "w_basic_load"
          /\ UNCHANGED << wstep, wdone >>
     ELSE LET run == XObjectRun(wfile.xobjs, 1, 0)
          IN  /\ wposted' = wposted \o << OnProgress(10), OnProgress(20) >> \o run.posts
                            \o (IF run.next > Len(wfile.xobjs)
                                THEN << OnProgress(85), OnProgress(90) >> ELSE <<>>)
              /\ wpc' = IF run.next > Len(wfile.xobjs) THEN "w_adv_save" ELSE "w_adv_image"
              /\ wstep' = run.next
              /\ wdone' = run.done
  /\ UNCHANGED << wfile, wdata, wbest, engineVars, hookVars, appVars >>

\* the three compression levels of image XObject wstep settle (each may throw,
\* which is caught); the image is replaced or kept; then the loop goes on
WorkerAdvImage ==
  /\ wpc = "w_adv_image"
  /\ LET run == XObjectRun(wfile.xobjs, wstep + 1, wdone + 1)
     IN  /\ wposted' = Append(wposted,
                         PostOf(ImageProgress100(wdone + 1, totalImages(wfile.xobjs))))
                       \o run.posts
                       \o (IF run.next > Len(wfile.xobjs)
                           THEN << OnProgress(85), OnProgress(90) >> ELSE <<>>)
         /\ wpc' = IF run.next > Len(wfile.xobjs) THEN "w_adv_save" ELSE "w_adv_image"
         /\ wstep' = run.next
         /\ wdone' = run.done
  /\ UNCHANGED << wfile, wdata, wbest, engineVars, hookVars, appVars >>

\* pako's deflate as the last resort: onProgress 50, 80, 100
DeflateFallback(m) ==
  /\ wposted' = wposted \o << OnProgress(50), OnProgress(80), OnProgress(100) >>
  /\ wdata' = [src |-> "deflate", byteLength |-> m]
  /\ wpc' = "w_result"

\* doc.save settles in compressImagesInPdf
WorkerAdvSave ==
  /\ wpc = "w_adv_save"
  /\ \E m \in LibraryOutcomes(wfile.byteLength) :
       IF m = -1
       THEN /\ wposted' = Append(wposted, OnProgress(30))
            /\ wpc' = "w_basic_load"
            /\ UNCHANGED wdata
       ELSE /\ wposted' = Append(wposted, OnProgress(100))
            /\ wdata' = [src |-> "pdf-lib", byteLength |-> m]
            /\ wpc' = "w_result"
  /\ UNCHANGED << wfile, wbest, wstep, wdone, engineVars, hookVars, appVars >>

\* PDFDocument.load settles in the fallback of compressPDF
WorkerBasicLoad ==
  /\ wpc = "w_basic_load"
  /\ IF wfile.loads
     THEN /\ wposted' = wposted \o << OnProgress(60), OnProgress(80) >>
          /\ wpc' = "w_basic_save"
          /\ UNCHANGED wdata
     ELSE \E m \in DeflateLengths(wfile.byteLength) : DeflateFallback(m)
  /\ UNCHANGED << wfile, wbest, wstep, wdone, engineVars, hookVars, appVars >>

\* pdfDoc.save settles in the fallback of compressPDF
WorkerBasicSave ==
  /\ wpc = "w_basic_save"
  /\ \E m \in LibraryOutcomes(wfile.byteLength) :
       IF m = -1
       THEN \E z \in DeflateLengths(wfile.byteLength) : DeflateFallback(z)
       ELSE /\ wposted' = Append(wposted, OnProgress(100))
            /\ wdata' = [src |-> "pdf-lib", byteLength |-> m]
            /\ wpc' = "w_result"
  /\ UNCHANGED << wfile, wbest, wstep, wdone, engineVars, hookVars, appVars >>

\* compressGeneric has no await: it runs to its end
WorkerReceiveGeneric ==
  /\ wpc = "idle"
  /\ \E f \in WorkerFiles :
       /\ f.hasType /\ RouteOf(f.fileType, f.fileName) = "generic"
       /\ ~f.loads /\ f.xobjs = <<>>
       /\ wfile' = f
       /\ \E m \in DeflateLengths(f.byteLength) :
            wdata' = [src |-> "deflate", byteLength |-> m]
  /\ wposted' = << FirstProgress, OnProgress(30), OnProgress(60), OnProgress(100) >>
  /\ wpc' = "w_result"
  /\ UNCHANGED << wbest, wstep, wdone, engineVars, hookVars, appVars >>

\* the compression function returned: the result message
WorkerResult ==
  /\ wpc = "w_result"
  /\ wposted' = Append(wposted,
       [type |-> "result", compressedData |-> wdata,
        originalSize |-> wfile.byteLength, compressedSize |-> wdata.byteLength])
  /\ wpc' = "w_done"
  /\ UNCHANGED << wfile, wdata, wbest, wstep, wdone, engineVars, hookVars, appVars >>

NextWorker ==
  \/ WorkerReceiveBad
  \/ WorkerReceiveImage
  \/ WorkerImageStrategy
  \/ WorkerReceivePdf
  \/ WorkerAdvLoad
  \/ WorkerAdvImage
  \/ WorkerAdvSave
  \/ WorkerBasicLoad
  \/ WorkerBasicSave
  \/ WorkerReceiveGeneric
  \/ WorkerResult

SpecWorker == Init /\ [][NextWorker]_vars

(***************************************************************************)
(* The useCompression hook (hooks/useCompression.ts) and the hybrid PDF     *)
(* compressor it calls.  One action runs from one await to the next.        *)
(* Progress is kept in hundredths.  A ratio is kept as the exact fraction   *)
(* num / den of the two integers the code divides.                          *)
(***************************************************************************)
\* largest file handed to the hook, most pages of a PDF
HMaxSize == 40
MaxPages == 3

\* the File given to compressFile: wasmOk, loads and decodes tell whether loadWasm,
\* pdfjsLib.getDocument and the Image element accept it
HookFiles ==
  { [size |-> n, fileType |-> t, wasmOk |-> w, loads |-> l, numPages |-> np, decodes |-> d] :
      n \in {0, 1, HMaxSize}, t \in {TypePdf, MimePng, TypeText},
      w \in BOOLEAN, l \in BOOLEAN, np \in 0..MaxPages, d \in BOOLEAN }

\* what happens to one page: added, a step throws (caught by the loop), or the
\* canvas yields no blob (the throw in the toBlob callback settles nothing)
PageOutcomes == {"added", "throws", "noblob"}

\* ((originalSize - compressedSize) / originalSize) * 100
SavedPercent(originalSize, compressedSize) ==
  [num |-> (originalSize - compressedSize) * 100, den |-> originalSize]

\* the catch of compressFile: the error state, return null
HookFail ==
  /\ kstate' = [kstate EXCEPT !.isCompressing = FALSE, !.progress = 0, !.error = TRUE]
  /\ kreturn' = [kind |-> "null"]
  /\ kpc' = "done"

\* setState at the start of compressFile
HookStarted == [isCompressing |-> TRUE, progress |-> 0, result |-> NoRecord, error |-> FALSE]

\* compressFile on a PDF: into compressPDFHybrid up to `await loadWasm()`
HookReceivePdf ==
  /\ kpc = "idle"
  /\ \E f \in HookFiles :
       /\ f.fileType = TypePdf
       /\ ~f.decodes
       /\ f.loads => (f.wasmOk /\ f.size > 0 /\ f.numPages > 0)
       /\ ~f.loads => f.numPages = 0
       /\ kfile' = f
  /\ kstate' = [HookStarted EXCEPT !.progress = 500]
  /\ kprogress' = << 500 >>
  /\ kpc' = "h_wasm"
  /\ UNCHANGED << kpage, kprocessed, kreturn, engineVars, workerVars, appVars >>

\* compressFile on an image: updateProgress(10), (50), `await compressImageAdvanced`
HookReceiveImage ==
  /\ kpc = "idle"
  /\ \E f \in HookFiles :
       /\ HasPrefixAt(f.fileType, 0, PrefixImage)
       /\ ~f.wasmOk /\ ~f.loads /\ f.numPages = 0
       /\ f.decodes => f.size > 0
       /\ kfile' = f
  /\ kstate' = [HookStarted EXCEPT !.progress = 5000]
  /\ kprogress' = << 1000, 5000 >>
  /\ kpc' = "k_image"
  /\ UNCHANGED << kpage, kprocessed, kreturn, engineVars, workerVars, appVars >>

\* compressFile on any other file: throw new Error('Unsupported file type'), caught
HookReceiveUnsupported ==
  /\ kpc = "idle"
  /\ \E f \in HookFiles :
       /\ f.fileType # TypePdf /\ ~HasPrefixAt(f.fileType, 0, PrefixImage)
       /\ ~f.wasmOk /\ ~f.loads /\ f.numPages = 0 /\ ~f.decodes
       /\ kfile' = f
  /\ HookFail
  /\ UNCHANGED << kprogress, kpage, kprocessed, engineVars, workerVars, appVars >>

\* loadWasm settles; onProgress(10); `await loadingTask.promise`
HybridWasm ==
  /\ kpc = "h_wasm"
  /\ IF ~kfile.wasmOk
     THEN HookFail /\ UNCHANGED kprogress
     ELSE /\ kprogress' = Append(kprogress, 1000)
          /\ kstate' = [kstate EXCEPT !.progress = 1000]
          /\ kpc' = "h_load"
          /\ UNCHANGED kreturn
  /\ UNCHANGED << kfile, kpage, kprocessed, engineVars, workerVars, appVars >>

\* getDocument settles; PDFDocument.create(); the page loop starts
HybridLoad ==
  /\ kpc = "h_load"
  /\ IF ~kfile.loads
     THEN HookFail /\ UNCHANGED << kpage, kprocessed >>
     ELSE /\ kpage' = 1
          /\ kprocessed' = 0
          /\ kpc' = "h_page"
          /\ UNCHANGED << kstate, kreturn >>
  /\ UNCHANGED << kfile, kprogress, engineVars, workerVars, appVars >>

\* 10 + (processedPages / numPages) * 80, in hundredths
PageProgress100(processedPages, numPages) == 1000 + (8000 * processedPages) \div numPages

\* page kpage is rendered, compressed and embedded, or one of these fails;
\* after the last page onProgress(95) and `await newPdfDoc.save()`
HybridPage ==
  /\ kpc = "h_page"
  /\ \E o \in PageOutcomes :
       IF o = "noblob"
       THEN /\ kpc' = "h_stuck"
            /\ UNCHANGED << kpage, kprocessed, kprogress, kstate >>
       ELSE LET processed == IF o = "added" THEN kprocessed + 1 ELSE kprocessed
                posts == (IF o = "added"
                          THEN << PageProgress100(processed, kfile.numPages) >> ELSE <<>>)
                         \o (IF kpage = kfile.numPages THEN << 9500 >> ELSE <<>>)
            IN  /\ kprocessed' = processed
                /\ kpage' = kpage + 1
                /\ kprogress' = kprogress \o posts
                /\ kstate' = IF posts = <<>> THEN kstate
                             ELSE [kstate EXCEPT !.progress = posts[Len(posts)]]
                /\ kpc' = IF kpage = kfile.numPages THEN "h_save" ELSE "h_page"
  /\ UNCHANGED << kfile, kreturn, engineVars, workerVars, appVars >>

\* the stats of compressPDF
HybridStats(originalSize, compressedSize) ==
  [originalSize |-> originalSize,
   compressedSize |-> compressedSize,
   compressionRatio |-> IF originalSize > 0
                        THEN SavedPercent(originalSize, compressedSize)
                        ELSE [num |-> 0, den |-> 1],
   pageCount |-> kfile.numPages,
   processedPages |-> kprocessed]

\* newPdfDoc.save() settles; the stats; onProgress(100); back in compressFile the
\* result is validated, stored in the state and returned
HybridSave ==
  /\ kpc = "h_save"
  /\ \E m \in LibraryOutcomes(kfile.size) :
       IF m = -1
       THEN HookFail /\ UNCHANGED kprogress
       ELSE LET stats == HybridStats(kfile.size, m)
            IN  /\ kprogress' = Append(kprogress, 10000)
                /\ kstate' = [kstate EXCEPT !.progress = 10000, !.result = stats,
                                            !.isCompressing = FALSE]
                /\ kreturn' = [kind |-> "result", byteLength |-> m, result |-> stats]
                /\ kpc' = "done"
  /\ UNCHANGED << kfile, kpage, kprocessed, engineVars, workerVars, appVars >>

\* compressImageAdvanced settles; updateProgress(95); the result record
HookImage ==
  /\ kpc = "k_image"
  /\ IF ~kfile.decodes
     THEN HookFail /\ UNCHANGED kprogress
     ELSE \E m \in LibraryOutcomes(kfile.size) :
            /\ m # -1
            /\ LET rec == [originalSize |-> kfile.size,
                           compressedSize |-> m,
                           compressionRatio |-> SavedPercent(kfile.size, m)]
               IN  /\ kprogress' = Append(kprogress, 9500)
                   /\ kstate' = [kstate EXCEPT !.progress = 10000, !.result = rec,
                                               !.isCompressing = FALSE]
                   /\ kreturn' = [kind |-> "result", byteLength |-> m, result |-> rec]
                   /\ kpc' = "done"
  /\ UNCHANGED << kfile, kpage, kprocessed, engineVars, workerVars, appVars >>

NextHook ==
  \/ HookReceivePdf
  \/ HookReceiveImage
  \/ HookReceiveUnsupported
  \/ HybridWasm
  \/ HybridLoad
  \/ HybridPage
  \/ HybridSave
  \/ HookImage

SpecHook == Init /\ [][NextHook]_vars

\* the event loop runs the continuation of every promise that settles
SpecHookFair == SpecHook /\ WF_vars(NextHook)

(***************************************************************************)
(* Several files over one worker: handleFilesAdded of the worker-based      *)
(* Index calls compressFile for every file at once; every call registers    *)
(* its own handleMessage on the one worker of workerRef.                    *)
(***************************************************************************)
\* handleFilesAdded(newFiles): forEach calls compressFile, which runs to
\* `await file.arrayBuffer()`
handleFilesAdded ==
  /\ \A i \in 1..NumFiles : sphase[i] = "none"
  /\ \E n \in 1..NumFiles :
       sphase' = [i \in 1..NumFiles |-> IF i <= n THEN "reading" ELSE "none"]
  /\ UNCHANGED << slisteners, sinbox, stask, smail, scalls, coreVars, loaderVars, indexVars >>

\* file.arrayBuffer() of file i settles: the listeners are added and the task is
\* posted, or the catch calls onError
ArrayBufferSettles(i) ==
  /\ sphase[i] = "reading"
  /\ \/ /\ sphase' = [sphase EXCEPT ![i] = "sent"]
        /\ slisteners' = slisteners \cup {i}
        /\ sinbox' = Append(sinbox, i)
        /\ UNCHANGED scalls
     \/ /\ sphase' = [sphase EXCEPT ![i] = "failed"]
        /\ scalls' = [scalls EXCEPT ![i] = Append(@, [cb |-> "onError", task |-> 0])]
        /\ UNCHANGED << slisteners, sinbox >>
  /\ UNCHANGED << stask, smail, coreVars, loaderVars, indexVars >>

\* self.onmessage takes the next compress message and posts progress 5
WorkerOnMessage ==
  /\ sinbox # <<>>
  /\ stask' = [stask EXCEPT ![Head(sinbox)] = 1]
  /\ smail' = Append(smail, [type |-> "progress", task |-> Head(sinbox)])
  /\ sinbox' = Tail(sinbox)
  /\ UNCHANGED << sphase, slisteners, scalls, coreVars, loaderVars, indexVars >>

\* the task of file t goes on after an await: one more progress message, or at
\* its end the result message or the error message of the catch
WorkerTaskStep(t) ==
  /\ stask[t] >= 1
  /\ stask[t] <= ProgressPosts
  /\ \E type \in (IF stask[t] < ProgressPosts THEN {"progress"} ELSE {"result", "error"}) :
       smail' = Append(smail, [type |-> type, task |-> t])
  /\ stask' = [stask EXCEPT ![t] = @ + 1]
  /\ UNCHANGED << sphase, slisteners, sinbox, scalls, coreVars, loaderVars, indexVars >>

\* the callback handleMessage of a compressFile call makes of a message type
CallbackOf(type) ==
  IF type = "progress" THEN "onProgress"
  ELSE IF type = "result" THEN "onComplete" ELSE "onError"

\* one message event is dispatched on the worker: every registered
\* handleMessage runs; on result and error each removes its own listeners
handleMessage ==
  /\ smail # <<>>
  /\ LET m == Head(smail)
     IN  /\ scalls' = [i \in 1..NumFiles |->
                        IF i \in slisteners
                        THEN Append(scalls[i], [cb |-> CallbackOf(m.type), task |-> m.task])
                        ELSE scalls[i]]
         /\ slisteners' = IF m.type = "progress" THEN slisteners ELSE {}
  /\ smail' = Tail(smail)
  /\ UNCHANGED << sphase, sinbox, stask, coreVars, loaderVars, indexVars >>

NextShared ==
  \/ handleFilesAdded
  \/ \E i \in 1..NumFiles : ArrayBufferSettles(i)
  \/ WorkerOnMessage
  \/ \E t \in 1..NumFiles : WorkerTaskStep(t)
  \/ handleMessage

SpecShared == Init /\ [][NextShared]_vars

(***************************************************************************)
(* loadWasm.  One action runs a call from one await (or timer) to the next. *)
(***************************************************************************)
MustWaitNever == FALSE

\* if (isLoading): the call polls instead of loading
MustWait == isLoading

\* the catch and the finally of loadWasm: isLoading = false; throw error
LoadFails(c) ==
  /\ isLoading' = FALSE
  /\ lcall' = [lcall EXCEPT ![c] = "rejected"]
  /\ UNCHANGED wasmModule

\* loadWasm() up to its first await: the cached module, the polling promise, or
\* the start of a load (the script element, or straight the fetch)
LoadWasmCall(c) ==
  /\ lcall[c] = "none"
  /\ IF wasmModule = "ready"
     THEN /\ lcall' = [lcall EXCEPT ![c] = "resolved"]
          /\ UNCHANGED << isLoading, lfetches >>
     ELSE IF MustWait
     THEN /\ lcall' = [lcall EXCEPT ![c] = "polling"]
          /\ UNCHANGED << isLoading, lfetches >>
     ELSE /\ isLoading' = TRUE
          /\ lcall' = [lcall EXCEPT ![c] = IF windowGo THEN "fetch" ELSE "script"]
          /\ lfetches' = IF windowGo THEN lfetches + 1 ELSE lfetches
  /\ UNCHANGED << wasmModule, windowGo, coreVars, sharedVars, indexVars >>

\* script.onload or script.onerror; after onload the fetch starts unless
\* window.Go is still missing
ScriptSettles(c) ==
  /\ lcall[c] = "script"
  /\ \E loaded \in BOOLEAN, defined \in BOOLEAN :
       /\ ~loaded => ~defined
       /\ windowGo' = (windowGo \/ defined)
       /\ IF loaded /\ (windowGo \/ defined)
          THEN /\ lcall' = [lcall EXCEPT ![c] = "fetch"]
               /\ lfetches' = lfetches + 1
               /\ UNCHANGED << wasmModule, isLoading >>
          ELSE LoadFails(c) /\ UNCHANGED lfetches
  /\ UNCHANGED << coreVars, sharedVars, indexVars >>

\* fetch, arrayBuffer and WebAssembly.instantiate settle; go.run(instance)
FetchSettles(c) ==
  /\ lcall[c] = "fetch"
  /\ \E ok \in BOOLEAN :
       IF ok
       THEN lcall' = [lcall EXCEPT ![c] = "waitForReady"] /\ UNCHANGED << wasmModule, isLoading >>
       ELSE LoadFails(c)
  /\ UNCHANGED << windowGo, lfetches, coreVars, sharedVars, indexVars >>

\* waitForReady: checkReady sees the exports, or the 10 second timeout rejects
ReadySettles(c) ==
  /\ lcall[c] = "waitForReady"
  /\ \E ready \in BOOLEAN :
       IF ready
       THEN /\ wasmModule' = "ready"
            /\ isLoading' = FALSE
            /\ lcall' = [lcall EXCEPT ![c] = "resolved"]
       ELSE LoadFails(c)
  /\ UNCHANGED << windowGo, lfetches, coreVars, sharedVars, indexVars >>

\* checkReady of a polling call finds wasmModule.isReady; until then it only
\* sets its timer again
PollResolves(c) ==
  /\ lcall[c] = "polling"
  /\ wasmModule = "ready"
  /\ lcall' = [lcall EXCEPT ![c] = "resolved"]
  /\ UNCHANGED << wasmModule, isLoading, windowGo, lfetches, coreVars, sharedVars, indexVars >>

NextLoader ==
  \/ \E c \in 1..NumCalls : LoadWasmCall(c)
  \/ \E c \in 1..NumCalls : ScriptSettles(c)
  \/ \E c \in 1..NumCalls : FetchSettles(c)
  \/ \E c \in 1..NumCalls : ReadySettles(c)
  \/ \E c \in 1..NumCalls : PollResolves(c)

SpecLoader == Init /\ [][NextLoader]_vars

\* timers fire and the promises of the browser settle
SpecLoaderFair == SpecLoader /\ WF_vars(NextLoader)

(***************************************************************************)
(* The sequential Index page: handleFilesAdded compresses the files of a    *)
(* batch one after the other with the compressFile of the hook above.       *)
(***************************************************************************)
\* setFiles(prev => prev.map(f => f.id === id ? {...f, status} : f)): an entry
\* that was removed from the list is not there to be updated
SetStatus(i, status) ==
  istatus' = IF i \in ilisted THEN [istatus EXCEPT ![i] = status] ELSE istatus

\* handleFilesAdded(newFiles): the entries are appended as pending
IndexFilesAdded ==
  /\ ipc = "idle"
  /\ \E n \in 1..BatchSize :
       /\ istatus' = [i \in 1..BatchSize |-> IF i <= n THEN "pending" ELSE "none"]
       /\ ilisted' = 1..n
  /\ ipos' = 1
  /\ ipc' = "next"
  /\ UNCHANGED << coreVars, sharedVars, loaderVars >>

\* top of the for loop: the entry becomes compressing; compressFile is called
IndexStart ==
  /\ ipc = "next"
  /\ kpc = "idle"
  /\ SetStatus(ipos, "compressing")
  /\ ipc' = "await"
  /\ UNCHANGED << ilisted, ipos, coreVars, sharedVars, loaderVars >>

\* `await compressFile(...)` settled: completed on a non-empty buffer, error
\* otherwise; reset(); the loop goes to the next file or ends
IndexSettle ==
  /\ ipc = "await"
  /\ kpc = "done"
  /\ SetStatus(ipos, IF kreturn.kind = "result" /\ kreturn.byteLength > 0
                     THEN "completed" ELSE "error")
  /\ ipos' = ipos + 1
  /\ ipc' = IF ipos < BatchSize /\ istatus[ipos + 1] # "none" THEN "next" ELSE "finished"
  /\ kpc' = "idle"
  /\ kfile' = NoFile
  /\ kstate' = HookState0
  /\ kprogress' = <<>>
  /\ kpage' = 0
  /\ kprocessed' = 0
  /\ kreturn' = NotReturned
  /\ UNCHANGED << ilisted, engineVars, workerVars, sharedVars, loaderVars >>

\* handleRemoveFile(fileId): the entry leaves the list
handleRemoveFile(i) ==
  /\ i \in ilisted
  /\ ilisted' = ilisted \ {i}
  /\ UNCHANGED << istatus, ipos, ipc, coreVars, sharedVars, loaderVars >>

\* the compressFile call of the loop runs
IndexCompressFile == ipc = "await" /\ NextHook

\* what the page does by itself, without the user
IndexRuns == IndexStart \/ IndexCompressFile \/ IndexSettle

NextIndex ==
  \/ IndexFilesAdded
  \/ IndexRuns
  \/ \E i \in 1..BatchSize : handleRemoveFile(i)

SpecIndex == Init /\ [][NextIndex]_vars

\* every promise that settles has its continuation run; the user is free to
\* leave the list as it is
SpecIndexFair == SpecIndex /\ WF_vars(IndexRuns)

Next ==
  \/ CallCompressPDF
  \/ PdfBegin
  \/ PdfHeader
  \/ PdfImages
  \/ PdfMetadata
  \/ PdfStreams
  \/ PdfSelect
  \/ CallCompressImage
  \/ ImgBegin
  \/ ImgDecode
  \/ ImgResize
  \/ ImgJpeg85
  \/ ImgJpeg75
  \/ ImgJpeg60
  \/ ImgJpeg40
  \/ ImgPng
  \/ ImgSelect
  \/ FileToPDF
  \/ FileToImage
  \/ FileUnsupported
  \/ CallNotArray
  \/ CallCompressBatch
  \/ BatchGo

Spec == Init /\ [][Next]_vars

(***************************************************************************)
(* Properties of the WASM engine (Spec)                                    *)
(***************************************************************************)
Resolved(fn) == outcome = "resolved" /\ call.fn = fn

\* the first four bytes of b are %PDF
HasMagic(b) == HasPrefixAt(b, 0, PdfMagic)

\* C1: whenever compressPDF or compressImage resolves, the data of the result
\* is not longer than the input buffer.
C1_OutputNeverLonger ==
  outcome = "resolved" => Len(result.data) <= Len(call.bytes)

\* a call resolved with a non-empty buffer strictly shorter than its input
C1_Witness ==
  /\ outcome = "resolved"
  /\ Len(result.data) > 0
  /\ Len(result.data) < Len(call.bytes)

C3_Original ==
  Resolved("compressImage") =>
    IF 20 * bestSize <= 19 * Len(call.bytes)
    THEN result.data = bestResult /\ result.compressedSize = bestSize
    ELSE result.data = call.bytes /\ result.compressedSize = result.originalSize

\* C3 amended: the best candidate is returned only when it is smaller than 95%
\* of the input; at 95% or more, the boundary included, the original bytes are
\* returned unchanged and compressedSize equals originalSize.
C3_Amended ==
  Resolved("compressImage") =>
    IF 20 * bestSize < 19 * Len(call.bytes)
    THEN result.data = bestResult /\ result.compressedSize = bestSize
    ELSE result.data = call.bytes /\ result.compressedSize = result.originalSize

\* the best candidate is exactly 95% of the input and the original came back
C3_Witness ==
  /\ Resolved("compressImage")
  /\ bestSize < Len(call.bytes)
  /\ 20 * bestSize = 19 * Len(call.bytes)
  /\ result.data = call.bytes

\* a compressPDF call on a buffer without the %PDF magic has ended, and its
\* progress callback did not throw
PassthroughEnded ==
  /\ call.fn = "compressPDF"
  /\ call.nargs >= 1
  /\ ~HasMagic(call.bytes)
  /\ pc = "done"
  /\ ~panicked

\* C4 as stated: every buffer not starting with %PDF, the empty buffer
\* included, comes back as the data of a result.
C4_Original ==
  PassthroughEnded => outcome = "resolved" /\ result.data = call.bytes

\* C4 amended: every non-empty buffer not starting with %PDF (also one shorter
\* than four bytes) comes back as the data of a result; the empty buffer is
\* rejected and yields no result.
C4_Amended ==
  PassthroughEnded =>
    IF Len(call.bytes) = 0
    THEN outcome = "rejected" /\ result = NoResult
    ELSE outcome = "resolved" /\ result.data = call.bytes

\* a buffer of one to three bytes was passed through
C4_Witness ==
  /\ PassthroughEnded
  /\ Len(call.bytes) \in 1..3
  /\ outcome = "resolved"

\* C5: the values passed to the progress callback are non-decreasing, and a call
\* that resolves (a passed-through non-PDF buffer included) passed 100 last.
C5_MonotoneEndingAt100 ==
  /\ \A i \in 1..Len(progress) : \A j \in i..Len(progress) : progress[i] <= progress[j]
  /\ (outcome = "resolved" /\ call.sink # "none") =>
       Len(progress) > 0 /\ progress[Len(progress)] = 100

\* the input holds a JPEG span the image stage processes and, after it,
\* the entry "/Creator (Test)"
JpegThenCreator(b) ==
  /\ HasMagic(b)
  /\ \E k \in 0..(Len(b) - 1) :
       /\ SpanAt(b, k).kind = "jpeg"
       /\ IndexFrom(b, SpanAt(b, k).end, CreatorEntry) # -1

C9_PdfNeverPanics ==
  (call.fn = "compressPDF" /\ HasMagic(call.bytes) /\ call.sink # "throws") =>
    /\ ~panicked
    /\ outcome # "rejected"
    /\ pc = "done" => outcome = "resolved"

\* a PDF holding a JPEG segment and a PNG chunk whose declared lengths point
\* past the end of the buffer went through all stages
C9_Witness ==
  /\ Resolved("compressPDF")
  /\ HasMagic(call.bytes)
  /\ Contains(call.bytes, <<255, 254, 255, 255>>)
  /\ Contains(call.bytes, <<0, 0, 255, 255, 73, 68, 65, 84>>)
  /\ call.sink # "throws"

DecodeFails ==
  /\ call.fn = "compressImage"
  /\ call.nargs >= 2
  /\ "data" \notin DOMAIN call
  /\ \/ call.format = "junk"
     \/ call.mimeType = MimeJpeg /\ call.format # "jpeg"
     \/ call.mimeType = MimePng /\ call.format # "png"

\* C11: a compressImage call whose input cannot be decoded ends rejected, by the
\* decode error and not by a recovered panic when the progress callback does not
\* throw; it produces no result object and never reports progress 100.
C11_DecodeFailureFatal ==
  DecodeFails =>
    /\ outcome # "resolved"
    /\ result = NoResult
    /\ \A k \in 1..Len(progress) : progress[k] # 100
    /\ pc = "done" => outcome = "rejected" /\ (call.sink # "throws" => ~panicked)
    /\ pc \in {"idle", "img_go", "img_decode", "done"}

\* PNG bytes sent with a JPEG hint were rejected after progress 20 was reported
C11_Witness ==
  /\ DecodeFails
  /\ call.format = "png"
  /\ call.sink = "ok"
  /\ pc = "done"
  /\ outcome = "rejected"
  /\ ~panicked
  /\ progress = <<20>>

\* C12: in compressImage every preset is tried whatever the earlier attempts
\* returned (a failed encode is skipped, the ladder goes on in its order), and a
\* call in which every attempt failed still resolves, with the original bytes.
C12_EncodeFailureSkipped ==
  call.fn = "compressImage" =>
    /\ pc = "img_q85" => attempts.tried = 0
    /\ pc = "img_q75" => attempts.tried = 1
    /\ pc = "img_q60" => attempts.tried = 2
    /\ pc = "img_q40" => attempts.tried = 3
    /\ pc = "img_png" => attempts.tried = 4
    /\ pc = "img_select" => attempts.tried \in {4, 5}
    /\ outcome = "resolved" => attempts.tried \in {4, 5}
    /\ (pc = "done" /\ ~panicked /\ attempts.tried > 0 /\ attempts.failed = attempts.tried) =>
         /\ outcome = "resolved"
         /\ result.data = call.bytes
         /\ result.compressedSize = result.originalSize

\* the four JPEG encodes and the PNG encode all failed and the call resolved
C12_Witness ==
  /\ Resolved("compressImage")
  /\ attempts.tried = 5
  /\ attempts.failed = 5
  /\ result.data = call.bytes

\* C14: a File is routed to the PDF path exactly when its first four bytes are
\* %PDF, whatever its MIME type and name, and to the image path otherwise.
C14_RoutedByMagic ==
  "fileName" \in DOMAIN call =>
    IF HasMagic(call.bytes) THEN call.fn = "compressPDF" ELSE call.fn = "compressImage"

\* C15: whenever compressPDF returns a transformed buffer, every span the image
\* stage processed is found in the returned data as the bytes that stage chose
\* for it (its candidate, or the span itself).
C15_SpansUntouched ==
  (Resolved("compressPDF") /\ result.data # call.bytes) =>
    LET spans == SpansFrom(call.bytes, 0)
    IN  \A n \in 1..Len(spans) : Contains(result.data, spans[n].chosen)

\* the input d with spans n.. replaced by the bytes chosen for them and the
\* bytes between the spans, from offset from on, copied
RECURSIVE Splice(_, _, _, _)
Splice(d, spans, n, from) ==
  IF n > Len(spans) THEN Slice(d, from, Len(d))
  ELSE Slice(d, from, spans[n].start) \o spans[n].chosen
       \o Splice(d, spans, n + 1, spans[n].end)

\* the image stage of a compressPDF call has just run
AfterImageStage == call.fn = "compressPDF" /\ pc = "pdf_metadata"

\* C16: the output of the image stage is the input with each processed span
\* replaced by its candidate when that is strictly shorter and by the span itself
\* otherwise, every other byte copied in place; the spans lie inside the buffer,
\* do not overlap and are in increasing offset order; the output is not longer
\* than the input.
C16_ImageStageSplices ==
  AfterImageStage =>
    LET d == call.bytes
        spans == SpansFrom(d, 0)
    IN  /\ compressed = Splice(d, spans, 1, 0)
        /\ Len(compressed) <= Len(d)
        /\ \A n \in 1..Len(spans) :
             LET raw == Slice(d, spans[n].start, spans[n].end)
                 cand == IF spans[n].kind = "jpeg" THEN compressJpegData(raw)
                         ELSE compressPngData(raw).bytes
             IN  /\ 0 <= spans[n].start /\ spans[n].start < spans[n].end
                 /\ spans[n].end <= Len(d)
                 /\ n < Len(spans) => spans[n].end <= spans[n + 1].start
                 /\ spans[n].chosen = (IF Len(cand) < Len(raw) THEN cand ELSE raw)

\* a JPEG span and a PNG span were processed and at least one was replaced
C16_Witness ==
  /\ AfterImageStage
  /\ Len(SpansFrom(call.bytes, 0)) = 2
  /\ Len(compressed) < Len(call.bytes)

\* offset just past the first FF D9 that closes a JPEG starting at k, or -1
FirstJpegClose(d, k) ==
  LET es == {e \in (k + 4)..Len(d) : B(d, e - 2) = 255 /\ B(d, e - 1) = 217}
  IN  IF es = {} THEN -1 ELSE Min(es)

\* offset just past IEND and its CRC for a PNG starting at k, or -1
FirstPngClose(d, k) ==
  LET es == {e \in (k + 16)..Len(d) : Slice(d, e - 8, e - 4) = ChunkEnd}
  IN  IF es = {} THEN -1 ELSE Min(es)

\* a start marker at offset k, and where its span would close
JpegStartAt(d, k) == k + 2 < Len(d) /\ B(d, k) = 255 /\ B(d, k + 1) = 216
PngStartAt(d, k) == k + 7 < Len(d) /\ Slice(d, k, k + 4) = PngSignature

\* C17: a span is handed to the recompressor only if it runs from a start marker
\* to the first closing marker found inside the buffer and is longer than 1000
\* bytes; a start marker the scan reaches that has no closing marker, or whose
\* span is not longer than 1000 bytes, is not processed, and when nothing is
\* processed the output is the input.
C17_SpansClosedAndLong ==
  AfterImageStage =>
    LET d == call.bytes
        spans == SpansFrom(d, 0)
        inSpan(k) == \E n \in 1..Len(spans) : spans[n].start <= k /\ k < spans[n].end
    IN  /\ \A n \in 1..Len(spans) :
             /\ spans[n].end - spans[n].start > 1000
             /\ spans[n].end <= Len(d)
             /\ IF spans[n].kind = "jpeg"
                THEN /\ JpegStartAt(d, spans[n].start)
                     /\ spans[n].end = FirstJpegClose(d, spans[n].start)
                ELSE /\ PngStartAt(d, spans[n].start)
                     /\ spans[n].end = FirstPngClose(d, spans[n].start)
        /\ \A k \in 0..(Len(d) - 1) :
             ~inSpan(k) =>
               /\ JpegStartAt(d, k) =>
                    (FirstJpegClose(d, k) = -1 \/ FirstJpegClose(d, k) - k <= 1000)
               /\ PngStartAt(d, k) =>
                    (FirstPngClose(d, k) = -1 \/ FirstPngClose(d, k) - k <= 1000)
        /\ spans = <<>> => compressed = d

\* a buffer with a JPEG start marker and no closing marker was copied through
C17_Witness ==
  /\ AfterImageStage
  /\ \E k \in 0..(Len(call.bytes) - 3) :
       JpegStartAt(call.bytes, k) /\ FirstJpegClose(call.bytes, k) = -1
  /\ SpansFrom(call.bytes, 0) = <<>>
  /\ compressed = call.bytes

\* the metadata stage of a compressPDF call has just run
AfterMetadataStage == call.fn = "compressPDF" /\ pc = "pdf_streams"

\* C18: the buffer removeMetadataBinary returns holds no occurrence of any of the
\* eight keys and is not longer than the buffer it was given.
C18_NoKeyLeft ==
  AfterMetadataStage =>
    /\ \A key \in { KeyCreator, KeyProducer, KeyCreationDate, KeyModDate,
                    KeyTitle, KeyAuthor, KeySubject, KeyKeywords } :
         ~Contains(compressed, key)
    /\ Len(compressed) <= Len(compressEmbeddedImages(call.bytes).bytes)

\* an input holding /Creator twice and /Title went through the stage
C18_Witness ==
  /\ AfterMetadataStage
  /\ Index(call.bytes, KeyCreator) # -1
  /\ IndexFrom(call.bytes, Index(call.bytes, KeyCreator) + 1, KeyCreator) # -1
  /\ Contains(call.bytes, KeyTitle)
  /\ Len(compressed) < Len(call.bytes)

\* the whitespace stage of a compressPDF call has just run
AfterStreamStage == call.fn = "compressPDF" /\ pc = "pdf_select"

\* C19: the buffer optimizeStreams returns holds no run of three newlines and no
\* space or tab immediately before a newline, and optimizeStreams leaves it as it is.
C19_WhitespaceNormalForm ==
  AfterStreamStage =>
    /\ ~Contains(compressed, LF \o LF \o LF)
    /\ ~Contains(compressed, SP \o LF)
    /\ ~Contains(compressed, TAB \o LF)
    /\ optimizeStreams(compressed) = compressed

\* the ladder of a compressImage call is running or has just ended
InLadder ==
  /\ call.fn = "compressImage"
  /\ pc \in { "img_q85", "img_q75", "img_q60", "img_q40", "img_png", "img_select" }

C22_ResizeWithinMaximum ==
  InLadder =>
    LET W == call.dim[1]
        H == call.dim[2]
    IN  /\ width <= 2048 /\ height <= 2048
        /\ (W <= 2048 /\ H <= 2048) => (width = W /\ height = H)
        /\ (W > 2048 \/ H > 2048) =>
             IF W > H
             THEN width = 2048 /\ 0 <= 2048 * H - height * W /\ 2048 * H - height * W < W
             ELSE height = 2048 /\ 0 <= 2048 * W - width * H /\ 2048 * W - width * H < H

\* an image wider than 2048 and less high went through the step
C22_Witness ==
  /\ InLadder
  /\ call.dim[1] > 2048
  /\ call.dim[2] <= 2048
  /\ width = 2048
  /\ height < call.dim[2]

\* the positions at which the goroutine of a call still has a step to take
InFlight ==
  { "pdf_go", "pdf_header", "pdf_images", "pdf_metadata", "pdf_streams", "pdf_select",
    "img_go", "img_decode", "img_resize", "img_q85", "img_q75", "img_q60", "img_q40",
    "img_png", "img_select" }

\* C28: the promise of a compressPDF or compressImage call is settled once, by a
\* resolve or by a reject and never changed after, and no call comes to rest with
\* its promise unsettled: while the promise is pending the goroutine is in flight.
C28_SettlesExactlyOnce ==
  /\ [][outcome # "pending" => outcome' = outcome]_vars
  /\ [](pc = "done" => outcome \in {"resolved", "rejected"})
  /\ []((call.fn \in {"compressPDF", "compressImage"} /\ outcome = "pending") =>
          pc \in InFlight)

\* C29: a compressBatch call ends resolved, with one result per file of the list
\* its caller passed, in order, result i carrying the byte length of file i as
\* originalSize; the progress it reported never decreases and ends at 100.
C29_BatchOnePerFile ==
  (call.fn = "compressBatch" /\ pc = "done") =>
    LET files == call.outerArgs[1].items
    IN  /\ outcome = "resolved"
        /\ "list" \in DOMAIN result
        /\ Len(result.list) = Len(files)
        /\ \A i \in 1..Len(files) : result.list[i].originalSize = files[i].size
        /\ \A j, k \in 1..Len(progress) : j <= k => progress[j] <= progress[k]
        /\ call.sink = "ok" => (progress # <<>> /\ progress[Len(progress)] = 100)

(***************************************************************************)
(* Properties of the compression worker (SpecWorker)                       *)
(***************************************************************************)
\* C7: the compressedData of every result message is strictly smaller than
\* fileData or is fileData itself.
C7_SmallerOrIdentical ==
  \A k \in 1..Len(wposted) :
    wposted[k].type = "result" =>
      \/ wposted[k].compressedData.byteLength < wfile.byteLength
      \/ wposted[k].compressedData.src = "original"

\* C23: the progress values the worker posts for one file never decrease, lie in
\* [0, 100], and a result message comes only after a progress of 100.
C23_WorkerProgressMonotone ==
  /\ \A k \in 1..Len(wposted) :
       wposted[k].type = "progress" =>
         /\ wposted[k].progress100 >= 0
         /\ wposted[k].progress100 <= 10000
         /\ \A j \in 1..(k - 1) :
              wposted[j].type = "progress" => wposted[j].progress100 <= wposted[k].progress100
  /\ \A k \in 1..Len(wposted) :
       wposted[k].type = "result" =>
         /\ k > 1
         /\ wposted[k - 1].type = "progress"
         /\ wposted[k - 1].progress100 = 10000

(***************************************************************************)
(* Properties of the useCompression hook (SpecHook)                        *)
(***************************************************************************)
\* C13: in the result record compressFile returns, originalSize is the input
\* length, compressedSize the length of the returned buffer, and
\* compressionRatio equals compressedSize / originalSize.
C13_RecordFields ==
  kreturn.kind = "result" =>
    /\ kreturn.result.originalSize = kfile.size
    /\ kreturn.result.compressedSize = kreturn.byteLength
    /\ kreturn.result.compressionRatio.num * kreturn.result.originalSize
         = kreturn.result.compressedSize * kreturn.result.compressionRatio.den

\* C24: once compressPDFHybrid is in its page loop the call settles, whatever
\* happens to the single pages (a step throws, the canvas yields no blob), and the
\* stats of a settled call have processedPages <= pageCount.
C24_PageFailuresAbsorbed ==
  /\ [](kreturn.kind = "result" /\ kfile.fileType = TypePdf =>
          kreturn.result.processedPages <= kreturn.result.pageCount)
  /\ (kpc = "h_page") ~> (kpc = "done")

(***************************************************************************)
(* Properties of several files over one worker (SpecShared)                *)
(***************************************************************************)
\* the callbacks of file i that end its compression
Terminal(i) == {k \in 1..Len(scalls[i]) : scalls[i][k].cb \in {"onComplete", "onError"}}

\* every file of the batch was read, every task ended, every message was dispatched
AllDelivered ==
  /\ \E i \in 1..NumFiles : sphase[i] # "none"
  /\ \A i \in 1..NumFiles : sphase[i] \in {"none", "failed"} \/ stask[i] = ProgressPosts + 1
  /\ \A i \in 1..NumFiles : sphase[i] # "reading"
  /\ smail = <<>>

\* C25: the callbacks of a file are invoked only with messages of that file's own
\* task, a file gets at most one of onComplete and onError, and exactly one once
\* everything is dispatched.
C25_OwnMessagesOnly ==
  \A i \in 1..NumFiles :
    /\ \A k \in 1..Len(scalls[i]) : scalls[i][k].task \in {0, i}
    /\ Cardinality(Terminal(i)) <= 1
    /\ (AllDelivered /\ sphase[i] # "none") => Cardinality(Terminal(i)) = 1

(***************************************************************************)
(* Properties of loadWasm (SpecLoader, SpecLoaderFair)                     *)
(***************************************************************************)
\* C26: every loadWasm call that was made settles, resolved or rejected.
C26_EveryCallSettles ==
  \A c \in 1..NumCalls :
    (lcall[c] # "none") ~> (lcall[c] \in {"resolved", "rejected"})

\* the calls that are between the start of a load and its end
Loading == {c \in 1..NumCalls : lcall[c] \in {"script", "fetch", "waitForReady"}}

\* C27: at most one call is loading at a time, and once the module is stored no
\* step starts a load or a fetch: every call made from then on resolves at once.
C27_SingleLoad ==
  /\ [](Cardinality(Loading) <= 1)
  /\ [](wasmModule = "ready" => Loading = {})
  /\ [][wasmModule = "ready" =>
          /\ lfetches' = lfetches
          /\ \A c \in 1..NumCalls :
               lcall[c] = "none" /\ lcall'[c] # "none" => lcall'[c] = "resolved"]_vars

\* one load failed, a later call loaded the module with a second fetch, and every
\* call has settled
C27_Witness ==
  /\ wasmModule = "ready"
  /\ lfetches = 2
  /\ \E a, b \in 1..NumCalls : a # b /\ lcall[a] = "rejected" /\ lcall[b] = "resolved"
  /\ \A c \in 1..NumCalls : lcall[c] \in {"resolved", "rejected"}

(***************************************************************************)
(* Properties of the sequential Index page (SpecIndex, SpecIndexFair)      *)
(***************************************************************************)
\* the files of the batch that are through: completed, error, or removed
Through(i) == istatus[i] \in {"completed", "error"} \/ i \notin ilisted

\* at most one listed file is compressing, and it is compressing only when every
\* earlier file of the batch is through
C30_OneAtATime ==
  /\ Cardinality({i \in ilisted : istatus[i] = "compressing"}) <= 1
  /\ \A i \in ilisted :
       istatus[i] \in {"compressing", "completed", "error"} =>
         \A j \in 1..(i - 1) : Through(j)

\* a status only moves pending -> compressing -> completed or error
C30_StatusMoves ==
  [][\A i \in 1..BatchSize :
       istatus'[i] # istatus[i] =>
         << istatus[i], istatus'[i] >> \in
           { << "none", "pending" >>, << "pending", "compressing" >>,
             << "compressing", "completed" >>, << "compressing", "error" >> }]_vars

\* C30: the files of a batch are compressed one at a time in their order, each
\* status moving pending -> compressing -> completed or error, and every file
\* that stays in the list ends completed or error.
C30_SequentialBatch ==
  /\ []C30_OneAtATime
  /\ C30_StatusMoves
  /\ \A i \in 1..BatchSize : (istatus[i] = "pending") ~> Through(i)

====
